---- MODULE Spec2Model ----
(***************************************************************************)
(* qox (qox_pkg/qox.py): the task finder, the two task handlers and the    *)
(* dispatcher, as a state machine over a small file system.                *)
(*                                                                         *)
(* A path is the sequence of its parts (pathlib's Path.parts); a part is   *)
(* the sequence of its characters, so that Path.suffix, Path.stem and      *)
(* str.startswith are computed on the name as pathlib computes them.       *)
(***************************************************************************)
EXTENDS Integers, Sequences, FiniteSets, TLC

VARIABLES
    cwd,    \* the process working directory (os.getcwd())
    dirs,   \* the directories that exist
    files,  \* file path -> what the file holds
    mode,   \* file path -> st_mode permission bits
    qtf,    \* the QoxTaskFinder a caller holds, or NoFinder
    task,   \* the QoxTask last returned by fetch_task, or NoTask
    res     \* what the last operation did and how it ended

vars == <<cwd, dirs, files, mode, qtf, task, res>>

\* ---------------------------------------------------------------- bounds
MaxDepth == 2   \* directory levels below "/" of the working directory
MaxFiles == 2   \* files in the task directories of one file system
MaxArgs  == 1   \* arguments passed on to a task
MaxExit  == 1   \* largest exit code of a script

\* ------------------------------------------------------------- constants
QOX_FOLDER == <<".", "q", "o", "x">>
S_IEXEC == 64
IGNORED_EXTENSIONS == { <<".", "i", "n", "i">> }
ShellTask_EXTENSION == <<".", "s", "h">>
PythonTask_EXTENSION == <<".", "p", "y">>
BROKEN_MODULE_MARKER ==
    <<"q", "o", "x", "-", "f", "a", "k", "e", "-", "m", "o", "d", "u", "l",
      "e", "-", "p", "y", "-", "b", "r", "o", "k", "e", "n">>
BROKEN_MODULE_DOC == "Module broken - import failed."

NoFinder == [none |-> "finder"]
NoTask == [none |-> "task"]
NoDir == <<>>
Unset == [none |-> "unset"]

\* ------------------------------------------------------------- pathlib
RootDir == << <<"/">> >>
Seg == <<"d">>

\* Path.parent
Parent(p) == IF Len(p) <= 1 THEN p ELSE SubSeq(p, 1, Len(p) - 1)

\* candidate.parents[1] of an absolute path with at least three parts
Parents1(p) == SubSeq(p, 1, Len(p) - 2)

\* Path.name
Name(p) == p[Len(p)]

\* str.rfind("."), 1-based, 0 when there is none
LastDot(name) ==
    LET dots == {i \in 1..Len(name) : name[i] = "."}
    IN IF dots = {} THEN 0 ELSE CHOOSE i \in dots : \A j \in dots : j <= i

\* Path.suffix: from the last dot, unless the dot leads or ends the name
Suffix(name) ==
    LET i == LastDot(name)
    IN IF 1 < i /\ i < Len(name) THEN SubSeq(name, i, Len(name)) ELSE <<>>

\* Path.with_suffix("").name
Stem(name) ==
    LET i == LastDot(name)
    IN IF 1 < i /\ i < Len(name) THEN SubSeq(name, 1, i - 1) ELSE name

\* str.startswith
StartsWith(name, c) == Len(name) >= 1 /\ name[1] = c

IsPrefix(r, p) == Len(r) <= Len(p) /\ SubSeq(p, 1, Len(r)) = r

\* Path.relative_to (defined when root is a prefix of p)
RelativeTo(p, root) == SubSeq(p, Len(root) + 1, Len(p))

\* the directory d levels below "/"
Chain(d) == RootDir \o [i \in 1..d |-> Seg]

Ancestors(p) == {SubSeq(p, 1, k) : k \in 1..Len(p)}

\* ------------------------------------------------------- QoxTaskFinder
\* a search that skips a level at each step
SkipLevel(candidate) == Append(Parent(Parents1(candidate)), QOX_FOLDER)

\* the next candidate of the upward search
NextCandidate(candidate) == Append(Parents1(candidate), QOX_FOLDER)

\* the while loop of _find_qox_paths: [paths, tested], tested being the
\* candidates whose existence was asked, in the order asked
RECURSIVE FindLoop(_, _, _, _)
FindLoop(candidate, paths, tested, existing) ==
    LET paths2 == IF candidate \in existing THEN Append(paths, candidate)
                  ELSE paths
        tested2 == Append(tested, candidate)
    IN IF Len(candidate) <= 2
       THEN [paths |-> paths2, tested |-> tested2]
       ELSE FindLoop(NextCandidate(candidate), paths2, tested2, existing)

Reversed(s) == [i \in 1..Len(s) |-> s[Len(s) + 1 - i]]

\* the paths in the order found, nearest first
AsFound(found) == found

\* the order in which the paths found are returned
OrderPaths(found) == Reversed(found)

\* _find_qox_paths: the search paths, or the assertion "nothing to do"
find_qox_paths(wd, existing) ==
    LET w == FindLoop(Append(wd, QOX_FOLDER), <<>>, <<>>, existing)
    IN IF w.paths = <<>>
       THEN [raised |-> "AssertionError", paths |-> <<>>, tested |-> w.tested]
       ELSE [raised |-> "none", paths |-> OrderPaths(w.paths),
             tested |-> w.tested]

\* QoxTaskFinder.ROOT
ROOT(paths) == Parent(paths[1])

\* _collect_handler_classes: the classes of this module that set EXTENSION
handler_classes ==
    [e \in {ShellTask_EXTENSION, PythonTask_EXTENSION} |->
        IF e = ShellTask_EXTENSION THEN "ShellTask" ELSE "PythonTask"]

\* ------------------------------------------------------------ QoxTask
\* What a file holds. For a script the fields are its marker comments
\* (runnable and changedir are what eval() makes of the expression; "raise"
\* is an expression whose evaluation raises); for a module they are what
\* executing it gives: load is how exec_module ends, the others are the
\* module's attributes.
\*   runnable  : "absent" | "true" | "false" | "raise"
\*   changedir : a directory path, or NoDir when absent
\*   load      : "ok" | "error" (an Exception) | "exit" (SystemExit)
\*   qox       : whether the module defines the entry point
\*   help      : the help lines
Text(runnable, changedir, load, qox, help) ==
    [runnable |-> runnable, changedir |-> changedir, load |-> load,
     qox |-> qox, help |-> help]

\* import_python_module: the module object, or the error exec_module raises
import_python_module(path, text) ==
    IF text.load = "ok"
    THEN [raised |-> "none",
          module |-> [name |-> Stem(Name(path)), doc |-> text.help,
                      RUNNABLE |-> text.runnable,
                      CHANGEDIR |-> text.changedir, qox |-> text.qox]]
    ELSE [raised |-> IF text.load = "error" THEN "Exception" ELSE "SystemExit",
          module |-> Unset]

\* an except clause that catches nothing
CatchesNone(raised) == FALSE

\* the classes `except Exception` catches
CaughtOnLoad(raised) == raised = "Exception"

\* PythonTask._load_py_module: the module, or the fake one when the import
\* raised an Exception; any other error leaves the method
load_py_module(path, text) ==
    LET m == import_python_module(path, text)
    IN IF m.raised = "none" THEN m
       ELSE IF CaughtOnLoad(m.raised)
       THEN [raised |-> "none",
             module |-> [name |-> BROKEN_MODULE_MARKER,
                         doc |-> <<BROKEN_MODULE_DOC>>,
                         RUNNABLE |-> "false", CHANGEDIR |-> NoDir,
                         qox |-> FALSE]]
       ELSE m

\* QoxTask.__init__
QoxTask(cls, path, root, text) ==
    LET rel == RelativeTo(path, root)
    IN [cls |-> cls, PATH |-> path, ROOT |-> root,
        NAME |-> Stem(Name(path)),
        REL_PATH |-> SubSeq(rel, 1, Len(rel) - 2),
        broken |-> FALSE, text |-> text, module |-> Unset]

\* PythonTask.__init__ (and ShellTask's, which is QoxTask.__init__)
NewTask(cls, path, root, text) ==
    IF cls = "PythonTask"
    THEN LET m == load_py_module(path, text)
         IN IF m.raised # "none" THEN [raised |-> m.raised, task |-> NoTask]
            ELSE [raised |-> "none",
                  task |-> [QoxTask(cls, path, root, text) EXCEPT
                      !.module = m.module,
                      !.broken = (m.module.name = BROKEN_MODULE_MARKER)]]
    ELSE [raised |-> "none", task |-> QoxTask(cls, path, root, text)]

LONG_NAME(t) == [rel |-> t.REL_PATH, name |-> t.NAME]

\* --------------------------------------------- QoxTaskFinder.TASK_MAP
\* a loop without the skip
NeverPrivate(name) == FALSE

\* `if q.name.startswith("_"): continue`
IsPrivate(name) == StartsWith(name, "_")

\* the entries of a task directory that get a handler
Handled(qox_path, fs) ==
    {f \in DOMAIN fs : /\ Parent(f) = qox_path
                       /\ ~IsPrivate(Name(f))
                       /\ Suffix(Name(f)) \in DOMAIN handler_classes}

\* the entries passed over with the "[IGNORE]" warning
Warned(qox_path, fs) ==
    {f \in DOMAIN fs : /\ Parent(f) = qox_path
                       /\ ~IsPrivate(Name(f))
                       /\ Suffix(Name(f)) \notin DOMAIN handler_classes
                       /\ Suffix(Name(f)) \notin IGNORED_EXTENSIONS}

Built(f, root, fs) ==
    NewTask(handler_classes[Suffix(Name(f))], f, root, fs[f])

\* _get_task_map: iterdir() gives the entries in no fixed order and a later
\* entry replaces an earlier one of the same NAME, so each name may end on
\* any of the files that have it; a constructor that raises ends the loop
get_task_map(qox_path, root, fs) ==
    LET hs == Handled(qox_path, fs)
        bad == {f \in hs : Built(f, root, fs).raised # "none"}
        names == {Stem(Name(f)) : f \in hs}
    IN IF bad # {}
       THEN {[raised |-> Built(f, root, fs).raised, map |-> <<>>] : f \in bad}
       ELSE {[raised |-> "none", map |-> m] :
                m \in {g \in [names -> {Built(f, root, fs).task : f \in hs}] :
                          \A n \in names : g[n].NAME = n}}

\* dict.update
Update(m1, m2) ==
    [n \in DOMAIN m1 \cup DOMAIN m2 |->
        IF n \in DOMAIN m2 THEN m2[n] ELSE m1[n]]

\* TASK_MAP: the per-directory maps merged in the order of paths
RECURSIVE MergeFrom(_, _, _, _)
MergeFrom(i, paths, acc, fs) ==
    IF i > Len(paths) THEN {[raised |-> "none", map |-> acc]}
    ELSE LET ds == get_task_map(paths[i], ROOT(paths), fs)
         IN UNION {IF d.raised # "none" THEN {d}
                   ELSE MergeFrom(i + 1, paths, Update(acc, d.map), fs) :
                   d \in ds}

TASK_MAP(paths, fs) == MergeFrom(1, paths, <<>>, fs)

\* ------------------------------------------------- the task properties
\* ShellTask._evaluate_criterion: None without the marker line, else what
\* eval() gives ("raise": eval() raises)
evaluate_criterion(value) == IF value = "absent" THEN "None" ELSE value

\* a gate that lets every task through
AlwaysRunnable(t) == "true"

\* RUNNABLE: "true", "false", or "raise" when a script's expression raises
RUNNABLE(t) ==
    IF t.cls = "ShellTask"
    THEN LET result == evaluate_criterion(t.text.runnable)
         IN IF result = "None" THEN "true" ELSE result
    ELSE IF t.module.RUNNABLE = "absent" THEN "true" ELSE t.module.RUNNABLE

\* CHANGEDIR: None (NoDir) without a value or when it is the working
\* directory, else the directory, which is asserted to exist
CHANGEDIR(t, wd, ds) ==
    LET changedir == IF t.cls = "ShellTask" THEN t.text.changedir
                     ELSE t.module.CHANGEDIR
    IN IF changedir = NoDir \/ changedir = wd
       THEN [raised |-> "none", dir |-> NoDir]
       ELSE IF changedir \notin ds
       THEN [raised |-> "AssertionError", dir |-> NoDir]
       ELSE [raised |-> "none", dir |-> changedir]

\* HELP: the help lines
HELP(t) == IF t.cls = "ShellTask" THEN t.text.help ELSE t.module.doc

GlyphBroken == "bug"
GlyphRunnable == "runner"
GlyphSkipped == "sleeping"

\* FULL_INFO: the glyph, the long name, the first help line and the rest
FULL_INFO(t) ==
    LET r == IF t.broken THEN "broken" ELSE RUNNABLE(t)
        help == HELP(t)
    IN IF r = "raise" THEN [raised |-> "EvalError", info |-> Unset]
       ELSE [raised |-> "none",
             info |-> [glyph |-> IF r = "broken" THEN GlyphBroken
                                 ELSE IF r = "true" THEN GlyphRunnable
                                 ELSE GlyphSkipped,
                       name |-> LONG_NAME(t),
                       summary |-> IF help = <<>> THEN "" ELSE help[1],
                       extended |-> IF help = <<>> THEN <<>> ELSE Tail(help)]]

\* ------------------------------------------------------------ running
\* How a run ended and what it touched:
\*   raised   : the exception that left run(), "none" for a normal return
\*   detail   : the message of a QoxTaskFailedError or AssertionError
\*   status   : what a script's QoxTaskFailedError carries (-1 otherwise)
\*   cwd      : the process working directory afterwards
\*   execCwd  : the working directory the entry point or the script ran
\*              in, NoDir when neither ran
\*   spawned  : os.system was called
\*   lookedUp : the entry point was looked up
\*   chdir    : os.chdir was called to enter CHANGEDIR
\*   log      : the record given to LOG.info, <<>> when none was
Ended(raised, detail, status, wd, execCwd, spawned, lookedUp, chdir, log) ==
    [raised |-> raised, detail |-> detail, status |-> status, cwd |-> wd,
     execCwd |-> execCwd, spawned |-> spawned, lookedUp |-> lookedUp,
     chdir |-> chdir, log |-> log]

\* os.system: the wait status of the shell (exit code in the high byte)
os_system(exitcode) == (exitcode % 256) * 256

\* a _run that drops what os.system returns
ShellTask_run_unchecked(t, args, wd, ds, exitcode, log) ==
    Ended("none", "", -1, wd,
          IF CHANGEDIR(t, wd, ds).dir # NoDir THEN CHANGEDIR(t, wd, ds).dir
          ELSE wd, TRUE, FALSE, FALSE, log)

\* ShellTask._run; exitcode is the exit code the script ends with
ShellTask_run(t, args, wd, ds, exitcode, log) ==
    LET cd == CHANGEDIR(t, wd, ds).dir
        ret == os_system(exitcode)
        execCwd == IF cd # NoDir THEN cd ELSE wd
    IN IF ret # 0
       THEN Ended("QoxTaskFailedError", "Task failed", ret, wd, execCwd,
                  TRUE, FALSE, FALSE, log)
       ELSE Ended("none", "", -1, wd, execCwd, TRUE, FALSE, FALSE, log)

\* a restore placed after the call instead of in a finally clause
RestoreOnReturn(old_cwd, now, how) == IF how = "return" THEN old_cwd ELSE now

\* the finally clause of PythonTask._run: os.chdir(old_cwd)
PyRestore(old_cwd, now, how) == old_cwd

\* PythonTask._run; how is how the entry point ends ("return", "raise",
\* "exit") and moved the directory it changed into, NoDir when it changed
\* into none
PythonTask_run(t, args, wd, ds, how, moved, log) ==
    LET old_cwd == wd
        cd == CHANGEDIR(t, wd, ds).dir
        entered == IF cd # NoDir THEN cd ELSE wd
        left == IF moved # NoDir THEN moved ELSE entered
    IN IF ~t.module.qox
       THEN Ended("AssertionError", "needs a qox function", -1,
                  PyRestore(old_cwd, entered, "raise"), NoDir,
                  FALSE, TRUE, cd # NoDir, log)
       ELSE Ended(IF how = "return" THEN "none"
                  ELSE IF how = "raise" THEN "TaskError" ELSE "SystemExit",
                  "", -1, PyRestore(old_cwd, left, how), entered,
                  FALSE, TRUE, cd # NoDir, log)

\* the line of the log record that shows CHANGEDIR: relative to ROOT when
\* it lies under it ("<qox root>" for ROOT itself), else as it is
ShownDir(t, dir) ==
    IF IsPrefix(t.ROOT, dir)
    THEN IF RelativeTo(dir, t.ROOT) = <<>> THEN << <<"<qox root>">> >>
         ELSE RelativeTo(dir, t.ROOT)
    ELSE dir

Line(field, text) == [field |-> field, text |-> text]

\* `msg = f"\n[args] {args}"`
WithArgs(msg, args) == << Line("args", args) >>

\* the record run() logs
LogRecord(t, args, dir) ==
    LET msg0 == << Line("name", LONG_NAME(t)) >>
        msg1 == IF dir # NoDir
                THEN Append(msg0, Line("CHANGEDIR", ShownDir(t, dir)))
                ELSE msg0
        msg2 == IF args # <<>> THEN WithArgs(msg1, args) ELSE msg1
    IN Append(msg2, Line("definition", t.text))

\* QoxTask.run
run(t, args, wd, ds, exitcode, how, moved) ==
    LET r == RUNNABLE(t)
        cd == CHANGEDIR(t, wd, ds)
    IN IF r = "raise"
       THEN Ended("EvalError", "", -1, wd, NoDir, FALSE, FALSE, FALSE, <<>>)
       ELSE IF r = "false"
       THEN Ended("QoxTaskFailedError", "task not RUNNABLE", -1, wd, NoDir,
                  FALSE, FALSE, FALSE, <<>>)
       ELSE IF cd.raised # "none"
       THEN Ended("AssertionError", "not an existing directory", -1, wd,
                  NoDir, FALSE, FALSE, FALSE, <<>>)
       ELSE IF t.cls = "ShellTask"
       THEN ShellTask_run(t, args, wd, ds, exitcode,
                          LogRecord(t, args, cd.dir))
       ELSE PythonTask_run(t, args, wd, ds, how, moved,
                           LogRecord(t, args, cd.dir))

\* ------------------------------------------------------------ fetching
\* os.access(path, os.X_OK) for the owner of the file
IsExecutable(m) == (m \div S_IEXEC) % 2 = 1

\* adding the bit without asking whether it is set
add_unchecked(m) == m + S_IEXEC

\* _ensure_is_executable: the mode afterwards
ensure_is_executable(m) == IF IsExecutable(m) THEN m ELSE m + S_IEXEC

\* fetch_task on a built task map: the task and the modes afterwards, or
\* the assertion, whose message lists the map
fetch_task(map, name, modes) ==
    IF name \notin DOMAIN map
    THEN [raised |-> "AssertionError", listed |-> DOMAIN map,
          task |-> NoTask, modes |-> modes]
    ELSE [raised |-> "none", listed |-> {}, task |-> map[name],
          modes |-> [modes EXCEPT ![map[name].PATH] =
                        ensure_is_executable(modes[map[name].PATH])]]

\* -------------------------------------------------------------- main
HelpFlags == { <<"-", "h">>, <<"-", "-", "h", "e", "l", "p">> }

\* How main() ended:
\*   how     : "returned", "sys.exit" (the except clause) or "uncaught"
\*   error   : the exception caught or let through, "none" when returned
\*   exit    : the exit status of the process: 0 on return, 1 for
\*             sys.exit(<message>) and for an uncaught exception (for an
\*             uncaught SystemExit the task chooses it: 1 stands for it)
\*   message : what sys.exit was given: the error's detail and status
\*   printed : the FULL_INFO lines printed
\*   listed  : the task names an unknown-task assertion lists
\*   ran     : how task.run ended, Unset when it was not called
MainEnded(how, error, printed, listed, wd, modes, ran) ==
    [how |-> how, error |-> error,
     exit |-> IF how = "returned" THEN 0 ELSE 1,
     message |-> IF how = "sys.exit"
                 THEN [detail |-> ran.detail, status |-> ran.status]
                 ELSE Unset,
     printed |-> printed, listed |-> listed,
     cwd |-> wd, modes |-> modes, ran |-> ran]

\* a listing without the assertion
main_list_unasserted(map, wd, modes) ==
    MainEnded("returned", "none",
              {FULL_INFO(map[n]).info : n \in DOMAIN map}, {}, wd, modes, Unset)

\* the branch of main() that lists the tasks of a built task map
main_list(map, wd, modes) ==
    LET infos == {FULL_INFO(map[n]) : n \in DOMAIN map}
        tasks_info == {i.info : i \in {j \in infos : j.raised = "none"}}
    IN IF \E i \in infos : i.raised # "none"
       THEN MainEnded("uncaught", "EvalError", {}, {}, wd, modes, Unset)
       ELSE IF tasks_info = {}
       THEN MainEnded("uncaught", "AssertionError", {}, {}, wd, modes, Unset)
       ELSE MainEnded("returned", "none", tasks_info, {}, wd, modes, Unset)

\* which exceptions of task.run the try statement of main() catches
CaughtByMain(raised) == raised = "QoxTaskFailedError"

\* the branch of main() that fetches and runs a task
main_run(map, cmd, args, wd, ds, modes, exitcode, how, moved) ==
    LET ft == fetch_task(map, cmd, modes)
        o == run(ft.task, args, wd, ds, exitcode, how, moved)
    IN IF ft.raised # "none"
       THEN MainEnded("uncaught", ft.raised, {}, ft.listed, wd, modes, Unset)
       ELSE IF o.raised = "none"
       THEN MainEnded("returned", "none", {}, {}, o.cwd, ft.modes, o)
       ELSE IF CaughtByMain(o.raised)
       THEN MainEnded("sys.exit", o.raised, {}, {}, o.cwd, ft.modes, o)
       ELSE MainEnded("uncaught", o.raised, {}, {}, o.cwd, ft.modes, o)

\* main(): every way it can end for the command line argv
main(argv, wd, ds, fs, modes, exitcode, how, moved) ==
    LET cmd == IF argv = <<>> THEN <<>> ELSE Head(argv)
        args == IF argv = <<>> THEN <<>> ELSE Tail(argv)
        f == find_qox_paths(wd, ds)
    IN IF f.raised # "none"
       THEN {MainEnded("uncaught", f.raised, {}, {}, wd, modes, Unset)}
       ELSE {IF tm.raised # "none"
             THEN MainEnded("uncaught", tm.raised, {}, {}, wd, modes, Unset)
             ELSE IF cmd = <<>> \/ cmd \in HelpFlags
             THEN main_list(tm.map, wd, modes)
             ELSE main_run(tm.map, cmd, args, wd, ds, modes, exitcode, how,
                           moved) :
             tm \in TASK_MAP(f.paths, fs)}

\* ------------------------------------------------- the file systems
SH == ShellTask_EXTENSION
PY == PythonTask_EXTENSION
INI == <<".", "i", "n", "i">>

Kind(name, text, m) == [name |-> name, text |-> text, mode |-> m]

DefaultText == Text("absent", NoDir, "ok", TRUE, <<>>)

\* the sets of at most k elements of S
RECURSIVE SubsetsUpTo(_, _)
SubsetsUpTo(S, k) ==
    IF k = 0 THEN {{}}
    ELSE LET smaller == SubsetsUpTo(S, k - 1)
         IN smaller \cup {T \cup {x} : T \in smaller, x \in S}

PlacedAt(p) == Append(p.dir, p.kind.name)

\* no directory holds two files of one name
Placeable(S) == \A p, q \in S : PlacedAt(p) = PlacedAt(q) => p = q

Placements(markers, kinds, k) ==
    {S \in SubsetsUpTo({[dir |-> m, kind |-> kd] : m \in markers, kd \in kinds},
                       k) : Placeable(S)}

FilesOf(S) ==
    [f \in {PlacedAt(p) : p \in S} |->
        (CHOOSE p \in S : PlacedAt(p) = f).kind.text]

ModesOf(S) ==
    [f \in {PlacedAt(p) : p \in S} |->
        (CHOOSE p \in S : PlacedAt(p) = f).kind.mode]

Chains == {Chain(d) : d \in 0..MaxDepth}

\* the marker directories the search from wd can ask for
Candidates(wd) == {Append(a, QOX_FOLDER) : a \in Ancestors(wd)}

Booted(wd, markers, S) ==
    /\ cwd = wd
    /\ dirs = Chains \cup markers
    /\ files = FilesOf(S)
    /\ mode = ModesOf(S)
    /\ qtf = NoFinder
    /\ task = NoTask
    /\ res = [op |-> "start"]

\* task directories at any level at or above the working directory, which
\* may itself be one; modes 0o644 and 0o755
HierKinds ==
    { Kind(<<"t">> \o SH, DefaultText, 420),
      Kind(<<"t">> \o PY, DefaultText, 493),
      Kind(<<"u">> \o SH, DefaultText, 420) }

Init ==
    \E wd \in Chains \cup {Append(Chain(d), QOX_FOLDER) : d \in 0..MaxDepth - 1} :
    \E markers \in SUBSET Candidates(wd) :
    \E S \in Placements(markers, HierKinds, MaxFiles) :
        /\ Name(wd) = QOX_FOLDER => wd \in markers
        /\ Booted(wd, markers, S)

\* one task directory with files of every kind of name (the stem of the
\* fake module's name among them), modules that fail to load, scripts that
\* are not runnable, and owner, group or no execute permission (0o644,
\* 0o654, 0o755)
DirKinds ==
    {Kind(pre \o <<"t">> \o ext, DefaultText, 420) :
        pre \in {<<>>, <<"_">>, <<".">>}, ext \in {SH, PY, INI, <<>>}}
    \cup {Kind(<<"u">> \o PY, Text("absent", NoDir, l, TRUE, <<"doc">>), 420) :
        l \in {"error", "exit"}}
    \cup {Kind(<<"_", "u">> \o PY, Text("absent", NoDir, "exit", TRUE, <<>>), 420)}
    \cup {Kind(BROKEN_MODULE_MARKER \o PY, DefaultText, 420)}
    \cup {Kind(<<"v">> \o SH, DefaultText, m) : m \in {428, 493}}
    \cup {Kind(<<"w">> \o SH, Text(r, NoDir, "ok", TRUE, <<"help", "more">>), 420) :
        r \in {"false", "raise"}}

InitDir ==
    \E S \in Placements({Append(Chain(1), QOX_FOLDER)}, DirKinds, MaxFiles) :
        Booted(Chain(1), {Append(Chain(1), QOX_FOLDER)}, S)

\* one task directory holding one task, of every make
ChangedirValues == {NoDir, RootDir, Chain(1), RootDir \o << <<"x">> >>}

RunKinds ==
    {Kind(<<"t">> \o SH, Text(r, c, "ok", TRUE, <<>>), 493) :
        r \in {"absent", "true", "false", "raise"}, c \in ChangedirValues}
    \cup {Kind(<<"t">> \o PY, Text(r, c, "ok", q, <<>>), 420) :
        r \in {"absent", "true", "false"}, c \in ChangedirValues,
        q \in BOOLEAN}
    \cup {Kind(<<"t">> \o PY, Text("absent", NoDir, "error", TRUE, <<>>), 420)}

InitRun ==
    \E wd \in {Chain(1), Chain(2)} :
    \E kd \in RunKinds :
        Booted(wd, {Append(Chain(1), QOX_FOLDER)},
               {[dir |-> Append(Chain(1), QOX_FOLDER), kind |-> kd]})

\* ------------------------------------------------------------ inputs
TaskNames == {Stem(Name(f)) : f \in DOMAIN files} \cup { <<"n", "o">> }
ArgLists == {[i \in 1..n |-> <<"a">>] : n \in 0..MaxArgs}
ExitCodes == 0..MaxExit
EntryEnds == {"return", "raise", "exit"}
EntryMoves == {NoDir, RootDir}

\* What the task does once started: a script ends with an exit code; an
\* entry point returns, raises or exits, and may have changed directory
ScriptEnvs ==
    {[exitcode |-> e, how |-> "return", moved |-> NoDir] : e \in ExitCodes}
ModuleEnvs ==
    {[exitcode |-> 0, how |-> h, moved |-> m] :
        h \in EntryEnds, m \in EntryMoves}
Envs == ScriptEnvs \cup ModuleEnvs

EnvsFor(t) ==
    IF t = NoTask THEN {}
    ELSE IF t.cls = "ShellTask" THEN ScriptEnvs ELSE ModuleEnvs

\* the command lines: none, a help flag, or a task name and its arguments
ListArgvs == { <<>> } \cup {<<h>> : h \in HelpFlags}
TaskArgvs == {<<n>> \o a : n \in TaskNames, a \in ArgLists}
NoEnv == [exitcode |-> 0, how |-> "return", moved |-> NoDir]
MainInputs ==
    {[argv |-> v, env |-> NoEnv] : v \in ListArgvs}
    \cup {[argv |-> v, env |-> e] : v \in TaskArgvs, e \in Envs}

\* ----------------------------------------------------------- actions
\* QoxTaskFinder()
NewFinder ==
    /\ qtf = NoFinder
    /\ res.op = "start"
    /\ LET f == find_qox_paths(cwd, dirs)
       IN /\ qtf' = IF f.raised # "none" THEN NoFinder
                    ELSE [paths |-> f.paths, task_map |-> Unset]
          /\ res' = [op |-> "QoxTaskFinder", raised |-> f.raised,
                     paths |-> f.paths, tested |-> f.tested]
    /\ UNCHANGED <<cwd, dirs, files, mode, task>>

\* the cached property TASK_MAP of the finder held: built on first use
TaskMapOf(finder) ==
    IF finder.task_map # Unset
    THEN {[raised |-> "none", map |-> finder.task_map]}
    ELSE TASK_MAP(finder.paths, files)

\* qtf.fetch_task(name)
FetchTask(name) ==
    /\ qtf # NoFinder
    /\ \E tm \in TaskMapOf(qtf) :
        IF tm.raised # "none"
        THEN /\ res' = [op |-> "fetch_task", name |-> name,
                        raised |-> tm.raised, listed |-> {}, before |-> mode]
             /\ UNCHANGED <<qtf, task, mode>>
        ELSE LET ft == fetch_task(tm.map, name, mode)
             IN /\ qtf' = [qtf EXCEPT !.task_map = tm.map]
                /\ task' = IF ft.raised = "none" THEN ft.task ELSE task
                /\ mode' = ft.modes
                /\ res' = [op |-> "fetch_task", name |-> name,
                           raised |-> ft.raised, listed |-> ft.listed,
                           before |-> mode]
    /\ UNCHANGED <<cwd, dirs, files>>

\* task.run(args)
RunTask(args, env) ==
    /\ task # NoTask
    /\ LET o == run(task, args, cwd, dirs, env.exitcode, env.how, env.moved)
       IN /\ cwd' = o.cwd
          /\ res' = [op |-> "run", args |-> args, before |-> cwd, ran |-> o,
                     exitcode |-> IF o.spawned THEN env.exitcode ELSE -1,
                     how |-> IF o.execCwd # NoDir /\ o.lookedUp THEN env.how
                             ELSE "none"]
    /\ UNCHANGED <<dirs, files, mode, qtf, task>>

\* the command line: qox [task [args]], a process of its own
Main(argv, env) ==
    /\ res.op = "start"
    /\ \E o \in main(argv, cwd, dirs, files, mode, env.exitcode, env.how,
                     env.moved) :
          /\ cwd' = o.cwd
          /\ mode' = o.modes
          /\ res' = [op |-> "main", argv |-> argv, before |-> cwd,
                     modesBefore |-> mode, ended |-> o,
                     exitcode |-> IF o.ran # Unset /\ o.ran.spawned
                                  THEN env.exitcode ELSE -1]
    /\ UNCHANGED <<dirs, files, qtf, task>>

Next ==
    \/ NewFinder
    \/ \E name \in TaskNames : FetchTask(name)
    \/ \E args \in ArgLists, env \in EnvsFor(task) : RunTask(args, env)
    \/ \E input \in MainInputs : Main(input.argv, input.env)

Spec == Init /\ [][Next]_vars
SpecDir == InitDir /\ [][Next]_vars
SpecRun == InitRun /\ [][Next]_vars

\* ------------------------------------------------------------- claims
\* the task directories that exist at or above a working directory
MarkersAbove(wd) == {m \in Candidates(wd) : m \in dirs}

\* a directory holds a file that makes a task of this name: a script or a
\* module of that stem whose name does not start with an underscore
Defines(dir, name) ==
    \E f \in DOMAIN files :
        /\ Parent(f) = dir
        /\ Stem(Name(f)) = name
        /\ Suffix(Name(f)) \in {SH, PY}
        /\ Name(f)[1] # "_"

\* C1: the search paths of a finder are the task directories at or above the
\* working directory, outermost first, and fetch_task(name) returns the
\* handler of a file of that name in the directory nearest the working
\* directory among those that define the name.
C1_OverrideByProximity ==
    /\ qtf # NoFinder =>
        /\ {qtf.paths[i] : i \in 1..Len(qtf.paths)} = MarkersAbove(cwd)
        /\ \A i, j \in 1..Len(qtf.paths) :
              i < j => /\ Len(qtf.paths[i]) < Len(qtf.paths[j])
                       /\ IsPrefix(Parent(qtf.paths[i]), Parent(qtf.paths[j]))
    /\ (res.op = "fetch_task" /\ res.raised = "none") =>
        /\ task.NAME = res.name
        /\ Stem(Name(task.PATH)) = res.name
        /\ Parent(task.PATH) \in MarkersAbove(cwd)
        /\ Defines(Parent(task.PATH), res.name)
        /\ \A m \in MarkersAbove(cwd) :
              Defines(m, res.name) => Len(m) <= Len(Parent(task.PATH))

\* C1 witness: a name defined in two task directories was fetched
C1_Witness ==
    /\ res.op = "fetch_task"
    /\ res.raised = "none"
    /\ \E m1, m2 \in MarkersAbove(cwd) :
          /\ Len(m1) < Len(m2)
          /\ Defines(m1, res.name)
          /\ Defines(m2, res.name)
          /\ Parent(task.PATH) = m2

\* the directory a candidate marker was looked for in
Level(candidate) == Parent(candidate)

\* C8 (as claimed): after the working directory the search skips a level
\* between consecutive tests: each marker is looked for in the grandparent
\* of the directory the previous one was looked for in.
C8_EveryOtherLevel ==
    res.op = "QoxTaskFinder" =>
        /\ res.tested[1] = Append(cwd, QOX_FOLDER)
        /\ \A i \in 1..Len(res.tested) - 1 :
              Level(res.tested[i + 1]) = Parent(Parent(Level(res.tested[i])))

\* C8 (amended): the marker is looked for in the working directory and then
\* in every ancestor, the parent of the previous directory each time (the
\* candidate path loses one segment per step); every candidate but the last
\* has at least 3 segments and the last, the marker under "/", has 2.
C8_EveryLevel ==
    res.op = "QoxTaskFinder" =>
        /\ res.tested[1] = Append(cwd, QOX_FOLDER)
        /\ Len(res.tested) = Len(cwd)
        /\ \A i \in 1..Len(res.tested) :
              /\ Name(res.tested[i]) = QOX_FOLDER
              /\ Len(res.tested[i]) <= 2 <=> i = Len(res.tested)
        /\ \A i \in 1..Len(res.tested) - 1 :
              Level(res.tested[i + 1]) = Parent(Level(res.tested[i]))

\* C8 witness: a search that went up two levels
C8_Witness ==
    /\ res.op = "QoxTaskFinder"
    /\ Len(res.tested) >= 3
    /\ Level(res.tested[2]) = Parent(cwd)

\* the CHANGEDIR a task's file asks for, NoDir when it asks for none
Asked(t) == t.text.changedir

\* a task whose file makes it not runnable: a script or a module that sets
\* RUNNABLE false, or a module that failed to load
SaysNotRunnable(t) ==
    \/ t.text.runnable = "false"
    \/ t.cls = "PythonTask" /\ t.text.load # "ok"

\* C2: after run(args), however it ended, the process is in the working
\* directory it was in before; and a task whose CHANGEDIR is set and is not
\* that directory was executed (entry point called, script started) in
\* CHANGEDIR, any other task in the directory run was called in. The same
\* holds of a whole main().
C2_CwdRestored ==
    /\ res.op = "run" =>
        /\ cwd = res.before
        /\ res.ran.cwd = res.before
        /\ res.ran.execCwd # NoDir =>
              res.ran.execCwd =
                  IF Asked(task) # NoDir /\ Asked(task) # res.before
                  THEN Asked(task) ELSE res.before
    /\ res.op = "main" =>
        /\ cwd = res.before
        /\ res.ended.ran # Unset => res.ended.ran.cwd = res.before

\* C2 witness: an entry point that ran in CHANGEDIR and ended by exiting
C2_Witness ==
    /\ res.op = "run"
    /\ task.cls = "PythonTask"
    /\ res.how = "exit"
    /\ res.ran.raised = "SystemExit"
    /\ res.ran.execCwd = Asked(task)
    /\ res.ran.execCwd # res.before
    /\ cwd = res.before

\* C3: run() on a task that is not runnable raises the not-runnable error
\* and does nothing else: no process, no entry-point lookup, no chdir, no log
\* record; a script without a RUNNABLE marker passes the gate; and the "needs
\* a qox function" assertion comes only from a runnable module without the
\* entry point.
C3_GateFirst ==
    res.op = "run" =>
        /\ SaysNotRunnable(task) =>
              /\ res.ran.raised = "QoxTaskFailedError"
              /\ res.ran.detail = "task not RUNNABLE"
              /\ ~res.ran.spawned
              /\ ~res.ran.lookedUp
              /\ ~res.ran.chdir
              /\ res.ran.execCwd = NoDir
              /\ res.ran.log = <<>>
              /\ cwd = res.before
        /\ (task.cls = "ShellTask" /\ task.text.runnable = "absent") =>
              /\ res.ran.detail # "task not RUNNABLE"
              /\ res.ran.spawned \/ res.ran.raised = "AssertionError"
        /\ res.ran.detail = "needs a qox function" =>
              /\ res.ran.raised = "AssertionError"
              /\ task.cls = "PythonTask"
              /\ task.text.load = "ok"
              /\ task.text.runnable \in {"absent", "true"}
              /\ ~task.text.qox
              /\ res.ran.lookedUp

\* C3 witness: a broken module was run and stopped at the gate
C3_Witness ==
    /\ res.op = "run"
    /\ task.cls = "PythonTask"
    /\ task.broken
    /\ res.ran.raised = "QoxTaskFailedError"
    /\ res.ran.detail = "task not RUNNABLE"

\* C5: run() on a runnable script raises QoxTaskFailedError exactly when the
\* script's process exits non-zero, and the error carries the status
\* os.system returned for that exit code; in main() a QoxTaskFailedError of
\* run ends the process through sys.exit with that message and a non-zero
\* status, a normal return ends it with 0, and any other error is let
\* through as it is.
C5_ScriptFailure ==
    /\ (res.op = "run" /\ task.cls = "ShellTask"
            /\ task.text.runnable \in {"absent", "true"}) =>
        /\ res.ran.raised = "QoxTaskFailedError" <=> res.exitcode > 0
        /\ res.exitcode = 0 => res.ran.raised = "none"
        /\ res.ran.raised = "QoxTaskFailedError" =>
              /\ res.ran.detail = "Task failed"
              /\ res.ran.status # 0
              /\ res.ran.status \div 256 = res.exitcode
    /\ (res.op = "main" /\ res.ended.ran # Unset) =>
        /\ res.ended.ran.raised = "QoxTaskFailedError" =>
              /\ res.ended.how = "sys.exit"
              /\ res.ended.exit # 0
              /\ res.ended.message = [detail |-> res.ended.ran.detail,
                                      status |-> res.ended.ran.status]
        /\ res.ended.ran.raised = "none" =>
              res.ended.how = "returned" /\ res.ended.exit = 0
        /\ res.ended.ran.raised \notin {"none", "QoxTaskFailedError"} =>
              res.ended.how = "uncaught" /\ res.ended.error = res.ended.ran.raised

\* C5 witness: main() ran a script that exited non-zero
C5_Witness ==
    /\ res.op = "main"
    /\ res.exitcode > 0
    /\ res.ended.how = "sys.exit"
    /\ res.ended.message.detail = "Task failed"
    /\ res.ended.message.status = res.exitcode * 256

HasLine(log, field) == \E i \in 1..Len(log) : log[i].field = field

\* C10: the record run() logs before executing holds the task's qualified
\* name, the CHANGEDIR line when a directory override is in force, the
\* arguments when there are any, and the definition text.
C10_LogRecordComplete ==
    (res.op = "run" /\ res.ran.log # <<>>) =>
        /\ \E i \in 1..Len(res.ran.log) :
              /\ res.ran.log[i].field = "name"
              /\ res.ran.log[i].text = LONG_NAME(task)
        /\ (Asked(task) # NoDir /\ Asked(task) # res.before) =>
              HasLine(res.ran.log, "CHANGEDIR")
        /\ res.args # <<>> =>
              \E i \in 1..Len(res.ran.log) :
                  /\ res.ran.log[i].field = "args"
                  /\ res.ran.log[i].text = res.args
        /\ \E i \in 1..Len(res.ran.log) :
              /\ res.ran.log[i].field = "definition"
              /\ res.ran.log[i].text = task.text

\* the files of the task directories searched that get a handler: scripts
\* and modules whose name does not start with an underscore
TaskFiles(wd) ==
    {f \in DOMAIN files : /\ Parent(f) \in MarkersAbove(wd)
                          /\ Suffix(Name(f)) \in {SH, PY}
                          /\ Name(f)[1] # "_"}

ExitsOnLoad(f) == Suffix(Name(f)) = PY /\ files[f].load = "exit"
FailsOnLoad(f) == Suffix(Name(f)) = PY /\ files[f].load = "error"

\* the task map a finder has built
BuiltMap == IF qtf # NoFinder /\ qtf.task_map # Unset THEN qtf.task_map ELSE <<>>

BrokenInfo(t) ==
    [raised |-> "none",
     info |-> [glyph |-> GlyphBroken, name |-> LONG_NAME(t),
               summary |-> BROKEN_MODULE_DOC, extended |-> <<>>]]

\* C4 (as claimed): building the tasks never lets an error of a module load
\* through, so fetch_task ends with the task or with the unknown-task
\* assertion, and every module task whose load failed is broken.
C4_NeverPropagates ==
    /\ res.op = "fetch_task" => res.raised \in {"none", "AssertionError"}
    /\ \A n \in DOMAIN BuiltMap :
          (BuiltMap[n].cls = "PythonTask" /\ BuiltMap[n].text.load # "ok") =>
              BuiltMap[n].broken

\* C4 (amended): a module whose load raises an Exception still gives a task:
\* it is in the map, broken, not RUNNABLE, and its FULL_INFO is the broken
\* glyph with "Module broken - import failed."; the one error building the
\* tasks lets through is a load that raises something that is no Exception
\* (a process exit).
C4_ExceptionAbsorbed ==
    /\ res.op = "fetch_task" =>
        /\ res.raised \in {"none", "AssertionError", "SystemExit"}
        /\ res.raised = "SystemExit" <=>
              (BuiltMap = <<>> /\ \E f \in TaskFiles(cwd) : ExitsOnLoad(f))
    /\ (qtf # NoFinder /\ qtf.task_map # Unset) =>
        /\ \A f \in TaskFiles(cwd) :
              FailsOnLoad(f) => Stem(Name(f)) \in DOMAIN BuiltMap
        /\ \A n \in DOMAIN BuiltMap :
              LET t == BuiltMap[n]
              IN (t.cls = "PythonTask" /\ t.text.load # "ok") =>
                    /\ t.text.load = "error"
                    /\ t.broken
                    /\ RUNNABLE(t) = "false"
                    /\ FULL_INFO(t) = BrokenInfo(t)

\* C4 witness: fetch_task returned the task of a module that failed to load
C4_Witness ==
    /\ res.op = "fetch_task"
    /\ res.raised = "none"
    /\ task.cls = "PythonTask"
    /\ task.text.load = "error"
    /\ task.broken

Listing == res.op = "main" /\ (res.argv = <<>> \/ res.argv[1] \in HelpFlags)

\* C6 (as claimed): with a task directory found, main() without a task name
\* or with a help flag returns and prints at least one task.
C6_ListingNeverRaises ==
    (Listing /\ MarkersAbove(res.before) # {}) =>
        /\ res.ended.how = "returned"
        /\ res.ended.printed # {}

\* C6 (amended): with a task directory found, main() without a task name or
\* with a help flag raises in three cases only: the "no tasks" assertion when
\* the directories hold no task file, a process exit raised by a module
\* while it loads, and the error of a script's RUNNABLE expression; in every
\* other case, a broken module among the tasks included, it returns and has
\* printed at least one task, a broken one with the broken glyph.
C6_ListingRaisesOnlyWhen ==
    (Listing /\ MarkersAbove(res.before) # {}) =>
        LET fs == TaskFiles(res.before)
            e == res.ended
        IN /\ e.how \in {"returned", "uncaught"}
           /\ e.how = "returned" =>
                 /\ e.printed # {}
                 /\ \A f \in fs : FailsOnLoad(f) =>
                       \E i \in e.printed :
                           /\ i.glyph = GlyphBroken
                           /\ i.summary = BROKEN_MODULE_DOC
                           /\ i.name.name = Stem(Name(f))
           /\ e.how = "uncaught" =>
                 /\ e.error \in {"AssertionError", "SystemExit", "EvalError"}
                 /\ e.error = "AssertionError" => fs = {}
                 /\ e.error = "SystemExit" => \E f \in fs : ExitsOnLoad(f)
                 /\ e.error = "EvalError" =>
                       \E f \in fs : /\ Suffix(Name(f)) = SH
                                     /\ files[f].runnable = "raise"
           /\ (/\ fs # {}
               /\ \A f \in fs : /\ ~ExitsOnLoad(f)
                                /\ ~(Suffix(Name(f)) = SH
                                       /\ files[f].runnable = "raise"))
                 => e.how = "returned"

\* C6 witness: a listing that printed a broken module task
C6_Witness ==
    /\ Listing
    /\ res.ended.how = "returned"
    /\ \E i \in res.ended.printed : i.glyph = GlyphBroken

\* C7: fetch_task(name) on a built task map raises the assertion listing the
\* names of the map when name is not one of them, and then no mode has
\* changed; otherwise it returns the map's handler for name, the handler's
\* file has the owner execute bit, its mode is the old one with that bit
\* added (unchanged when it was executable), and no other mode has changed.
C7_FetchTask ==
    (res.op = "fetch_task" /\ qtf.task_map # Unset) =>
        IF res.name \notin DOMAIN qtf.task_map
        THEN /\ res.raised = "AssertionError"
             /\ res.listed = DOMAIN qtf.task_map
             /\ mode = res.before
        ELSE /\ res.raised = "none"
             /\ task = qtf.task_map[res.name]
             /\ (mode[task.PATH] \div 64) % 2 = 1
             /\ mode[task.PATH] =
                   IF (res.before[task.PATH] \div 64) % 2 = 1
                   THEN res.before[task.PATH]
                   ELSE res.before[task.PATH] + 64
             /\ \A f \in DOMAIN mode : f # task.PATH => mode[f] = res.before[f]

\* C7 witness: a fetch that had to add the execute bit
C7_Witness ==
    /\ res.op = "fetch_task"
    /\ res.raised = "none"
    /\ (res.before[task.PATH] \div 64) % 2 = 0
    /\ (mode[task.PATH] \div 64) % 2 = 1

\* C7 witness of the repeated call: a fetch of a file already executable
C7_WitnessRepeated ==
    /\ res.op = "fetch_task"
    /\ res.raised = "none"
    /\ mode = res.before
    /\ mode[task.PATH] \notin {420, 428, 493}

\* the maps _get_task_map can give for the task directories searched
DirMaps(wd) ==
    UNION {{o.map : o \in {x \in get_task_map(m, ROOT(qtf.paths), files) :
                              x.raised = "none"}} : m \in MarkersAbove(wd)}

\* C9 (as claimed): no task of the map of a directory or of the merged map
\* comes from a file whose name starts with "." or "_".
C9_NoDotNoUnderscore ==
    (qtf # NoFinder /\ qtf.task_map # Unset) =>
        /\ \A n \in DOMAIN BuiltMap :
              Name(BuiltMap[n].PATH)[1] \notin {".", "_"}
        /\ \A m \in DirMaps(cwd) : \A n \in DOMAIN m :
              Name(m[n].PATH)[1] \notin {".", "_"}

\* C9 (amended): no task of the map of a directory or of the merged map
\* comes from a file whose name starts with "_", whatever its extension; a
\* name that starts with "." is not skipped: such a file with a script or
\* module extension after a non-empty stem is a task, named by its stem
\* with the dot.
C9_NoUnderscore ==
    (qtf # NoFinder /\ qtf.task_map # Unset) =>
        /\ \A n \in DOMAIN BuiltMap : Name(BuiltMap[n].PATH)[1] # "_"
        /\ \A m \in DirMaps(cwd) : \A n \in DOMAIN m : Name(m[n].PATH)[1] # "_"
        /\    \A f \in DOMAIN files :
                  (/\ Parent(f) \in MarkersAbove(cwd)
                   /\ Name(f)[1] = "."
                   /\ Suffix(Name(f)) \in {SH, PY}) =>
                      /\ Stem(Name(f)) \in DOMAIN BuiltMap
                      /\ Name(BuiltMap[Stem(Name(f))].PATH)[1] = "."

\* C9 witness: a map was built for a directory holding an underscore file
\* with a handled extension, and it has a task
C9_Witness ==
    /\ qtf # NoFinder
    /\ qtf.task_map # Unset
    /\ DOMAIN qtf.task_map # {}
    /\ \E f \in DOMAIN files :
          /\ Parent(f) \in MarkersAbove(cwd)
          /\ Name(f)[1] = "_"
          /\ Suffix(Name(f)) \in {SH, PY}

\* the load of a module task's file failed: import_python_module raised
LoadFailed(t) == import_python_module(t.PATH, t.text).raised # "none"

\* C11 (as claimed): for every module task built, whatever its file name and
\* contents, the broken flag is true exactly when the load of its module
\* failed, and a task whose broken flag is true reports RUNNABLE false.
C11_BrokenIffLoadFailed ==
    /\ \A n \in DOMAIN BuiltMap :
          LET t == BuiltMap[n]
          IN t.cls = "PythonTask" =>
                /\ t.broken <=> LoadFailed(t)
                /\ t.broken => RUNNABLE(t) = "false"
    /\ (task # NoTask /\ task.cls = "PythonTask") =>
          /\ task.broken <=> LoadFailed(task)
          /\ task.broken => RUNNABLE(task) = "false"

====
